---- MODULE Spec2Model ----
(***************************************************************************)
(* Inventory Management: the Streamlit front end (inventory_streamlit_app) *)
(* and the inventory ledger it drives through four stored procedures.      *)
(*                                                                         *)
(* Each browser session runs call_procedure_core on a connection of its    *)
(* own: callproc, the collection of result sets, commit, and the display   *)
(* of the outcome.  The stored procedures are not part of the Python       *)
(* source; their effect is taken from the ledger description (section 4    *)
(* of the specification).  Quantities are counted in whole stock units and *)
(* avg_cost is kept as an exact fraction n/d in lowest terms.              *)
(***************************************************************************)
EXTENDS Integers, Sequences, FiniteSets, TLC

(* ---------- bounds ---------- *)
MaxQty == 2
MaxCost == 1
MaxLog == 2
InitOnHand == 2
InitAvgCost == 2
OrderedQty == 1
TickStep == 150
ReorderLevel == 1
TTL == 300

\* two browser sessions working on the stock of one (product, warehouse) pair
Sessions == {1, 2}
Products == {1}
\* every product has one purchase-order line and one sales-order line, on
\* order 1; order id 2 is a reference to an order that does not exist
KnownOrder == 1
OrderIds == {1, 2}
Qtys == 1..MaxQty
QtyChanges == (0 - MaxQty)..MaxQty
UnitCosts == {0, MaxCost}

VARIABLES
  on_hand,       \* stock_levels.on_hand, per product (one warehouse)
  avg_cost,      \* stock_levels.avg_cost, per product, as [n, d]
  allocated,     \* quantity reserved and not yet shipped, per sales-order line
  received_qty,  \* purchase_order_items.received_qty, per line
  shipped_qty,   \* sales_order_items.shipped_qty, per line
  movements,     \* inventory_movements, in commit order
  lock,          \* which session's open transaction holds the stock row
  sess,          \* per session: position in call_procedure_core and its locals
  cache,         \* st.cache_data entries of run_query, per (query, params)
  df             \* the dataframe the Run Query handler got last

db == <<on_hand, avg_cost, allocated, received_qty, shipped_qty, movements>>
reads == <<cache, df>>
vars == <<on_hand, avg_cost, allocated, received_qty, shipped_qty, movements, lock, sess, cache, df>>

(* ---------- helpers ---------- *)
Min(a, b) == IF a < b THEN a ELSE b

RECURSIVE GCD(_, _)
GCD(a, b) == IF b = 0 THEN a ELSE GCD(b, a % b)

\* a non-negative fraction in lowest terms
Frac(n, d) == LET g == GCD(n, d) IN [n |-> n \div g, d |-> d \div g]

NoOp == [kind |-> "None", id |-> 0, p |-> 0, qty |-> 0, cost |-> 0]
NoRow == [on_hand |-> 0, avg_cost |-> [n |-> 0, d |-> 1], allocated |-> 0,
          received_qty |-> 0, shipped_qty |-> 0]
NoTx == [row |-> NoRow, mov |-> <<>>]
IdleSess == [pc |-> "idle", op |-> NoOp, tx |-> NoTx, swallowed |-> FALSE,
             ok |-> FALSE, res |-> "None"]

Movement(type, p, qty, ref) ==
  [movement_type |-> type, product_id |-> p, qty |-> qty, reference |-> ref]

(* ---------- the stored procedures (ledger description, section 4) ---------- *)
\* Each reads the committed rows of its product, validates, and yields the
\* error it signals ("OK" for none) together with the writes of its
\* transaction: the new image of the product's rows and the movement row it
\* inserts.  A procedure that signals an error has written nothing.

CurrentRow(p) ==
  [on_hand |-> on_hand[p], avg_cost |-> avg_cost[p], allocated |-> allocated[p],
   received_qty |-> received_qty[p], shipped_qty |-> shipped_qty[p]]

WeightedAvg(old_on_hand, old_avg, qty, unit_cost) ==
  Frac(old_on_hand * old_avg.n + qty * unit_cost * old_avg.d,
       old_avg.d * (old_on_hand + qty))

\* the receipt applied without the check against the remaining ordered quantity
sp_receive_po_item_unchecked(op) ==
  IF op.qty <= 0 THEN [err |-> "InvalidQuantity", tx |-> NoTx]
  ELSE IF op.id # KnownOrder THEN [err |-> "NotFound", tx |-> NoTx]
  ELSE [err |-> "OK",
        tx |-> [row |-> [CurrentRow(op.p) EXCEPT
                           !.on_hand = @ + op.qty,
                           !.avg_cost = WeightedAvg(on_hand[op.p], avg_cost[op.p], op.qty, op.cost),
                           !.received_qty = @ + op.qty],
                mov |-> <<Movement("RECEIPT", op.p, op.qty, op.id)>>]]

sp_receive_po_item(op) ==
  IF op.qty <= 0 THEN [err |-> "InvalidQuantity", tx |-> NoTx]
  ELSE IF op.id # KnownOrder THEN [err |-> "NotFound", tx |-> NoTx]
  ELSE IF op.qty > OrderedQty - received_qty[op.p] THEN [err |-> "OverReceipt", tx |-> NoTx]
  ELSE [err |-> "OK",
        tx |-> [row |-> [CurrentRow(op.p) EXCEPT
                           !.on_hand = @ + op.qty,
                           !.avg_cost = WeightedAvg(on_hand[op.p], avg_cost[op.p], op.qty, op.cost),
                           !.received_qty = @ + op.qty],
                mov |-> <<Movement("RECEIPT", op.p, op.qty, op.id)>>]]

AvailableToAllocate(p) == on_hand[p] - allocated[p]

\* the allocation checked against on_hand instead of what is left of it
sp_allocate_so_item_on_hand(op) ==
  IF op.id # KnownOrder THEN [err |-> "NotFound", tx |-> NoTx]
  ELSE IF on_hand[op.p] < op.qty THEN [err |-> "InsufficientStock", tx |-> NoTx]
  ELSE [err |-> "OK",
        tx |-> [row |-> [CurrentRow(op.p) EXCEPT !.allocated = @ + op.qty],
                mov |-> <<Movement("ALLOCATION", op.p, op.qty, op.id)>>]]

sp_allocate_so_item(op) ==
  IF op.id # KnownOrder THEN [err |-> "NotFound", tx |-> NoTx]
  ELSE IF AvailableToAllocate(op.p) < op.qty THEN [err |-> "InsufficientStock", tx |-> NoTx]
  ELSE [err |-> "OK",
        tx |-> [row |-> [CurrentRow(op.p) EXCEPT !.allocated = @ + op.qty],
                mov |-> <<Movement("ALLOCATION", op.p, op.qty, op.id)>>]]

sp_ship_so_item(op) ==
  IF op.id # KnownOrder THEN [err |-> "NotFound", tx |-> NoTx]
  ELSE IF op.qty > on_hand[op.p] THEN [err |-> "InsufficientStock", tx |-> NoTx]
  ELSE IF op.qty > OrderedQty - shipped_qty[op.p] THEN [err |-> "OverShipment", tx |-> NoTx]
  ELSE [err |-> "OK",
        tx |-> [row |-> [CurrentRow(op.p) EXCEPT
                           !.on_hand = @ - op.qty,
                           !.shipped_qty = @ + op.qty,
                           !.allocated = @ - Min(op.qty, @)],
                mov |-> <<Movement("SALES_SHIPMENT", op.p, op.qty, op.id)>>]]

\* the adjustment applied without the check of the resulting on_hand
sp_apply_adjustment_item_unchecked(op) ==
  [err |-> "OK",
   tx |-> [row |-> [CurrentRow(op.p) EXCEPT !.on_hand = @ + op.qty],
           mov |-> <<Movement("ADJUSTMENT", op.p, op.qty, op.id)>>]]

sp_apply_adjustment_item(op) ==
  IF on_hand[op.p] + op.qty < 0 THEN [err |-> "InsufficientStock", tx |-> NoTx]
  ELSE [err |-> "OK",
        tx |-> [row |-> [CurrentRow(op.p) EXCEPT !.on_hand = @ + op.qty],
                mov |-> <<Movement("ADJUSTMENT", op.p, op.qty, op.id)>>]]

RunProcedure(op) ==
  CASE op.kind = "Receive"  -> sp_receive_po_item(op)
    [] op.kind = "Allocate" -> sp_allocate_so_item(op)
    [] op.kind = "Ship"     -> sp_ship_so_item(op)
    [] op.kind = "Adjust"   -> sp_apply_adjustment_item(op)

(* ---------- the relational store ---------- *)
\* a transaction's row lock on the stock row of its product, taken by the
\* procedure's first statement and held until commit or rollback
LockFree(s, p) == lock[p] = 0 \/ lock[p] = s

Release(s) == [p \in Products |-> IF lock[p] = s THEN 0 ELSE lock[p]]

\* commit makes the writes of the transaction visible, all at once
ApplyTx(p, tx) ==
  /\ on_hand' = [on_hand EXCEPT ![p] = tx.row.on_hand]
  /\ avg_cost' = [avg_cost EXCEPT ![p] = tx.row.avg_cost]
  /\ allocated' = [allocated EXCEPT ![p] = tx.row.allocated]
  /\ received_qty' = [received_qty EXCEPT ![p] = tx.row.received_qty]
  /\ shipped_qty' = [shipped_qty EXCEPT ![p] = tx.row.shipped_qty]
  /\ movements' = movements \o tx.mov

(* ---------- the read side: QUERIES through run_query ---------- *)
\* the reports that take no parameters; the key of a cache entry is the SQL
\* text with its (empty) parameters
QueryKeys == {"Current Stock (all warehouses)", "Low Stock Alerts"}

\* v_current_stock: one line per stock row
CurrentStockView == [p \in Products |-> [on_hand |-> on_hand[p], avg_cost |-> avg_cost[p]]]

\* v_low_stock: the products at or below their reorder level
LowStockView == {p \in Products : on_hand[p] <= ReorderLevel}

\* what the database answers now
run_query_core(key) ==
  IF key = "Current Stock (all warehouses)"
  THEN [kind |-> "stock", stock |-> CurrentStockView, low |-> {}]
  ELSE [kind |-> "low", stock |-> <<>>, low |-> LowStockView]

NoEntry == [present |-> FALSE, age |-> 0, value |-> <<>>]
NoDf == [kind |-> "none", stock |-> <<>>, low |-> {}]

Init ==
  /\ on_hand = [p \in Products |-> InitOnHand]
  /\ avg_cost = [p \in Products |-> Frac(InitAvgCost, 1)]
  /\ allocated = [p \in Products |-> 0]
  /\ received_qty = [p \in Products |-> 0]
  /\ shipped_qty = [p \in Products |-> 0]
  /\ movements = <<>>
  /\ lock = [p \in Products |-> 0]
  /\ sess = [s \in Sessions |-> IdleSess]
  /\ cache = [k \in QueryKeys |-> NoEntry]
  /\ df = NoDf

InFlight == Cardinality({s \in Sessions : sess[s].pc \in {"callproc", "fetch", "commit"}})

\* one of the four forms is submitted: the button handler has looked the SKU
\* up and is about to enter call_procedure
Invoke(s, op) ==
  /\ sess[s].pc = "idle"
  /\ Len(movements) + InFlight < MaxLog
  /\ sess' = [sess EXCEPT ![s] = [IdleSess EXCEPT !.pc = "callproc", !.op = op]]
  /\ UNCHANGED <<db, lock, reads>>

ReceiveButton(s) ==
  \E id \in OrderIds, p \in Products, q \in Qtys, c \in UnitCosts :
    Invoke(s, [kind |-> "Receive", id |-> id, p |-> p, qty |-> q, cost |-> c])

AllocateButton(s) ==
  \E id \in OrderIds, p \in Products, q \in Qtys :
    Invoke(s, [kind |-> "Allocate", id |-> id, p |-> p, qty |-> q, cost |-> 0])

ShipButton(s) ==
  \E id \in OrderIds, p \in Products, q \in Qtys :
    Invoke(s, [kind |-> "Ship", id |-> id, p |-> p, qty |-> q, cost |-> 0])

AdjustButton(s) ==
  \E id \in {KnownOrder}, p \in Products, q \in QtyChanges :
    Invoke(s, [kind |-> "Adjust", id |-> id, p |-> p, qty |-> q, cost |-> 0])

\* callproc on a connection in autocommit mode: the procedure's writes are
\* visible as soon as it has run
CallProc_autocommit(s) ==
  /\ sess[s].pc = "callproc"
  /\ LockFree(s, sess[s].op.p)
  /\ LET r == RunProcedure(sess[s].op) IN
       IF r.err = "OK"
       THEN /\ sess' = [sess EXCEPT ![s].pc = "fetch", ![s].tx = [r.tx EXCEPT !.mov = <<>>]]
            /\ lock' = [lock EXCEPT ![sess[s].op.p] = s]
            /\ ApplyTx(sess[s].op.p, r.tx)
       ELSE /\ sess' = [sess EXCEPT ![s].pc = "done", ![s].ok = FALSE, ![s].res = r.err]
            /\ lock' = Release(s)
            /\ UNCHANGED db
  /\ UNCHANGED reads

\* callproc on one connection shared by all sessions instead of a connection
\* per call: the sessions' statements run in one transaction and no row lock
\* keeps them apart
CallProc_shared_connection(s) ==
  /\ sess[s].pc = "callproc"
  /\ LET r == RunProcedure(sess[s].op) IN
       IF r.err = "OK"
       THEN /\ sess' = [sess EXCEPT ![s].pc = "fetch", ![s].tx = r.tx]
            /\ lock' = [lock EXCEPT ![sess[s].op.p] = s]
       ELSE /\ sess' = [sess EXCEPT ![s].pc = "done", ![s].ok = FALSE, ![s].res = r.err]
            /\ lock' = Release(s)
  /\ UNCHANGED <<db, reads>>

\* cur.callproc: the procedure runs inside the connection's transaction; an
\* error it signals is raised here and the except branch closes the
\* connection, which rolls the transaction back
CallProc(s) ==
  /\ sess[s].pc = "callproc"
  /\ LockFree(s, sess[s].op.p)
  /\ LET r == RunProcedure(sess[s].op) IN
       IF r.err = "OK"
       THEN /\ sess' = [sess EXCEPT ![s].pc = "fetch", ![s].tx = r.tx]
            /\ lock' = [lock EXCEPT ![sess[s].op.p] = s]
       ELSE /\ sess' = [sess EXCEPT ![s].pc = "done", ![s].ok = FALSE, ![s].res = r.err]
            /\ lock' = Release(s)
  /\ UNCHANGED <<db, reads>>

\* the procedure waits for a row lock held by another session's transaction
\* until the lock wait times out
LockTimeout(s) ==
  /\ sess[s].pc = "callproc"
  /\ ~LockFree(s, sess[s].op.p)
  /\ sess' = [sess EXCEPT ![s].pc = "done", ![s].ok = FALSE, ![s].res = "ContentionConflict"]
  /\ UNCHANGED <<db, lock, reads>>

\* cur.fetchall of the first result set and the cur.nextset loop: whatever
\* either raises is caught and passed over
FetchResults(s) ==
  /\ sess[s].pc = "fetch"
  /\ \E fetch_raises \in BOOLEAN, nextset_raises \in BOOLEAN :
       sess' = [sess EXCEPT ![s].pc = "commit",
                            ![s].swallowed = fetch_raises \/ nextset_raises]
  /\ UNCHANGED <<db, lock, reads>>

\* the call to raw_conn.commit left out: True is returned and closing the
\* connection rolls the transaction back
Commit_not_committed(s) ==
  /\ sess[s].pc = "commit"
  /\ sess' = [sess EXCEPT ![s].pc = "done", ![s].ok = TRUE,
                          ![s].res = "ResultSets", ![s].tx = NoTx]
  /\ lock' = Release(s)
  /\ UNCHANGED <<db, reads>>

\* a commit that raises after the server has made the writes durable, with
\* no rollback in the except branch
Commit_no_rollback(s) ==
  /\ sess[s].pc = "commit"
  /\ \E commit_raises \in BOOLEAN :
       /\ sess' = [sess EXCEPT ![s].pc = "done", ![s].ok = ~commit_raises,
                               ![s].res = IF commit_raises THEN "CommitError" ELSE "ResultSets",
                               ![s].tx = NoTx]
       /\ ApplyTx(sess[s].op.p, sess[s].tx)
  /\ lock' = Release(s)
  /\ UNCHANGED reads

\* an except branch that runs the call again instead of returning False
Commit_retries_call(s) ==
  /\ sess[s].pc = "commit"
  /\ \E commit_raises \in BOOLEAN :
       IF commit_raises
       THEN /\ sess' = [sess EXCEPT ![s].pc = "callproc", ![s].tx = NoTx,
                                    ![s].swallowed = FALSE]
            /\ UNCHANGED db
       ELSE /\ sess' = [sess EXCEPT ![s].pc = "done", ![s].ok = TRUE,
                                    ![s].res = "ResultSets", ![s].tx = NoTx]
            /\ ApplyTx(sess[s].op.p, sess[s].tx)
  /\ lock' = Release(s)
  /\ UNCHANGED reads

\* raw_conn.commit, then return True; a commit that raises goes to the
\* except branch, which closes the connection (rollback) and returns False
Commit(s) ==
  /\ sess[s].pc = "commit"
  /\ \E commit_raises \in BOOLEAN :
       IF commit_raises
       THEN /\ sess' = [sess EXCEPT ![s].pc = "done", ![s].ok = FALSE,
                                    ![s].res = "CommitError", ![s].tx = NoTx]
            /\ UNCHANGED db
       ELSE /\ sess' = [sess EXCEPT ![s].pc = "done", ![s].ok = TRUE,
                                    ![s].res = "ResultSets", ![s].tx = NoTx]
            /\ ApplyTx(sess[s].op.p, sess[s].tx)
  /\ lock' = Release(s)
  /\ UNCHANGED reads

\* st.success / st.error has shown the outcome; the form is ready again
ShowOutcome(s) ==
  /\ sess[s].pc = "done"
  /\ sess' = [sess EXCEPT ![s] = IdleSess]
  /\ UNCHANGED <<db, lock, reads>>

\* run_query = st.cache_data(ttl=300)(run_query_core): an entry younger than
\* the ttl answers the call; otherwise the database is asked and the answer kept
run_query(key) ==
  IF cache[key].present /\ cache[key].age < TTL
  THEN [value |-> cache[key].value, cache |-> cache]
  ELSE [value |-> run_query_core(key),
        cache |-> [cache EXCEPT ![key] = [present |-> TRUE, age |-> 0,
                                          value |-> run_query_core(key)]]]

\* the Run Query button
RunQuery(key) ==
  /\ df' = run_query(key).value
  /\ cache' = run_query(key).cache
  /\ UNCHANGED <<db, lock, sess>>

\* time passes
Tick ==
  /\ \E k \in QueryKeys : cache[k].present /\ cache[k].age < TTL
  /\ cache' = [k \in QueryKeys |->
                 IF cache[k].present
                 THEN [cache[k] EXCEPT !.age = Min(TTL, @ + TickStep)]
                 ELSE cache[k]]
  /\ UNCHANGED <<db, lock, sess, df>>

SessionStep(s) ==
  \/ ReceiveButton(s)
  \/ AllocateButton(s)
  \/ ShipButton(s)
  \/ AdjustButton(s)
  \/ CallProc(s)
  \/ LockTimeout(s)
  \/ FetchResults(s)
  \/ Commit(s)
  \/ ShowOutcome(s)

Next == \E s \in Sessions : SessionStep(s)

Spec == Init /\ [][Next]_vars

\* The thread of a session keeps running: a call that has been entered takes
\* its next step.  A call at callproc either gets the row lock or its lock
\* wait times out; fetching and committing do not wait for other sessions.
\* Submitting a form and dismissing the outcome are up to the user.
Fairness ==
  \A s \in Sessions :
    /\ WF_vars(CallProc(s) \/ LockTimeout(s))
    /\ WF_vars(FetchResults(s))
    /\ WF_vars(Commit(s))

SpecLive == Init /\ [][Next]_vars /\ Fairness

\* several sessions that only allocate
NextAlloc ==
  \E s \in Sessions :
    \/ AllocateButton(s)
    \/ CallProc(s)
    \/ LockTimeout(s)
    \/ FetchResults(s)
    \/ Commit(s)
    \/ ShowOutcome(s)

SpecAlloc == Init /\ [][NextAlloc]_vars

\* one session that runs operations while reports are read (alone, it never
\* waits for a row lock)
NextQuery ==
  \/ ReceiveButton(1)
  \/ AllocateButton(1)
  \/ ShipButton(1)
  \/ AdjustButton(1)
  \/ CallProc(1)
  \/ FetchResults(1)
  \/ Commit(1)
  \/ ShowOutcome(1)
  \/ \E key \in QueryKeys : RunQuery(key)
  \/ Tick

SpecQuery == Init /\ [][NextQuery]_vars

(* ---------- properties ---------- *)
RECURSIVE SumQty(_, _, _)
\* the total qty of the movements of one type recorded for a product
SumQty(q, type, p) ==
  IF q = <<>> THEN 0
  ELSE (IF Head(q).movement_type = type /\ Head(q).product_id = p THEN Head(q).qty ELSE 0)
       + SumQty(Tail(q), type, p)

\* session s takes the step that runs the procedure of an operation of this kind
Serialized(s, kind) ==
  /\ sess[s].pc = "callproc"
  /\ sess[s].op.kind = kind
  /\ sess'[s].pc \in {"fetch", "done"}
  /\ sess'[s].res # "ContentionConflict"

\* session s takes the step that commits an operation of this kind and returns True
Committed(s, kind) ==
  /\ sess[s].pc = "commit"
  /\ sess[s].op.kind = kind
  /\ sess'[s].pc = "done"
  /\ sess'[s].ok

\* C1: on_hand of every (product, warehouse) pair is >= 0 in every reachable
\* state, in the committed rows and in the row image of every open transaction.
OnHandNonNegative ==
  /\ \A p \in Products : on_hand[p] >= 0
  /\ \A s \in Sessions : sess[s].tx.row.on_hand >= 0

\* an adjustment has emptied the stock and a shipment that followed was
\* refused
OnHandWitness ==
  \E s \in Sessions :
    /\ sess[s].pc = "done"
    /\ sess[s].op.kind = "Ship"
    /\ sess[s].res = "InsufficientStock"
    /\ sess[s].op.id = KnownOrder
    /\ on_hand[sess[s].op.p] = 0
    /\ SumQty(movements, "ADJUSTMENT", sess[s].op.p) < 0

ReceiveUpdatesStock ==
  [][\A s \in Sessions :
       LET op == sess[s].op
           old == avg_cost[op.p]
           new == avg_cost'[op.p]
       IN /\ (Serialized(s, "Receive") /\ op.id = KnownOrder
                /\ op.qty <= OrderedQty - received_qty[op.p]) => sess'[s].pc = "fetch"
          /\ Committed(s, "Receive") =>
               /\ on_hand'[op.p] = on_hand[op.p] + op.qty
               /\ received_qty'[op.p] = received_qty[op.p] + op.qty
               /\ on_hand'[op.p] * new.n * old.d
                    = new.d * (on_hand[op.p] * old.n + op.qty * op.cost * old.d)
               /\ new.d > 0 /\ new.n >= 0]_vars

\* a receipt at a cost other than the running average was committed: the
\* average is no longer a whole number
ReceiveWitness ==
  \E s \in Sessions :
    /\ sess[s].pc = "done" /\ sess[s].op.kind = "Receive" /\ sess[s].ok
    /\ avg_cost[sess[s].op.p].d > 1
    /\ on_hand[sess[s].op.p] > InitOnHand
    /\ received_qty[sess[s].op.p] > 0

MovementType(kind) ==
  CASE kind = "Receive"  -> "RECEIPT"
    [] kind = "Allocate" -> "ALLOCATION"
    [] kind = "Ship"     -> "SALES_SHIPMENT"
    [] kind = "Adjust"   -> "ADJUSTMENT"

OpKinds == {"Receive", "Allocate", "Ship", "Adjust"}

ReadReflectsCommit ==
  [][\A key \in QueryKeys : RunQuery(key) => df' = run_query_core(key)]_vars

\* C8: call_procedure_core has returned True only if no step of it raised.
SuccessMeansNoError ==
  \A s \in Sessions : (sess[s].pc = "done" /\ sess[s].ok) => ~sess[s].swallowed

LedgerMatchesLog ==
  \A p \in Products :
    /\ on_hand[p] = InitOnHand + SumQty(movements, "RECEIPT", p)
                      - SumQty(movements, "SALES_SHIPMENT", p)
                      + SumQty(movements, "ADJUSTMENT", p)
    /\ received_qty[p] = SumQty(movements, "RECEIPT", p)
    /\ shipped_qty[p] = SumQty(movements, "SALES_SHIPMENT", p)

\* two calls on the same pair were in flight together and both are in the log
LedgerWitness ==
  \E s \in Sessions, t \in Sessions :
    /\ s # t
    /\ sess[s].pc = "done" /\ sess[s].ok /\ sess[s].op.kind = "Receive"
    /\ sess[t].pc = "done" /\ sess[t].ok /\ sess[t].op.kind = "Ship"
    /\ sess[s].op.p = sess[t].op.p
    /\ Len(movements) > 1

Running(s) == sess[s].pc \in {"callproc", "fetch", "commit"}

\* C11: every call that has been entered returns (True or a failure) whatever
\* the other session does: no call stays inside call_procedure_core for ever,
\* and it leaves only by returning; a call that finds the row locked by another
\* transaction ends its wait with the failure ContentionConflict; and a call
\* runs its procedure once, never again after it has gone past callproc.
EveryCallReturns ==
  /\ \A s \in Sessions : []<>(~Running(s))
  /\ [][\A s \in Sessions :
          /\ (Running(s) /\ ~Running(s)') => sess'[s].pc = "done"
          /\ (sess[s].pc = "callproc" /\ ~LockFree(s, sess[s].op.p) /\ sess'[s] # sess[s]) =>
               /\ sess'[s].pc = "done" /\ ~sess'[s].ok
               /\ sess'[s].res = "ContentionConflict"
          /\ (sess[s].pc \in {"fetch", "commit", "done"}) => sess'[s].pc # "callproc"
          /\ (sess[s].pc = "done" /\ sess'[s].pc = "done") => sess'[s] = sess[s]]_vars

\* a call has given up waiting for the row while the other session's
\* transaction still holds it
EveryCallReturnsWitness ==
  \E s \in Sessions, t \in Sessions :
    /\ s # t
    /\ sess[s].pc = "done" /\ sess[s].res = "ContentionConflict"
    /\ sess[t].pc \in {"fetch", "commit"}
    /\ lock[sess[s].op.p] = t
====
